---- MODULE Spec2Model ----
(***************************************************************************)
(* A model of the crawl-and-extract pipeline of src/scraper.py: the        *)
(* Dataset Store (save_watches_to_json), the Progress Store                *)
(* (load_progress / save_progress), the retry decorator (with_retry), the  *)
(* page loader (process_brand_page), the Brand Orchestrator                *)
(* (process_brand) and the part of main that calls it.                     *)
(*                                                                         *)
(* The remote site and the disk are the environment: every page load and   *)
(* every detail page draws its behaviour from a small set, a file          *)
(* operation may raise, and the process may be killed between any two      *)
(* steps, also in the middle of a file write (open(..., 'w') truncates the *)
(* file before json.dump fills it).                                        *)
(***************************************************************************)
EXTENDS Integers, Sequences, FiniteSets, TLC

(***************************************************************************)
(* Bounds of the model.                                                    *)
(***************************************************************************)
MaxRuns == 2      \* runs of main, one after the other
MaxKills == 1     \* external kills of the process
MaxFaults == 2    \* failures the environment injects (site and disk)
MaxBatch == 2     \* length of a batch handed to the Dataset Store alone
NumStoreUrls == 2 \* urls of the records handed to the Dataset Store alone
MaxResponse == 5  \* response times handed to adaptive_delay: 0 to MaxResponse / 2 s
MaxPageArg == 11  \* page numbers handed to get_pagination_url
MaxRows == 2      \* table rows of a detail page handed to extract_specs
MaxChildren == 3  \* children of the listing container handed to process_listing_page

(***************************************************************************)
(* Program constants.                                                      *)
(***************************************************************************)
PageLimit == 100     \* range(start_page, 100)
MaxRetries == 3      \* @with_retry(max_retries=3)
BackoffFactor == 2   \* with_retry(..., backoff_factor=2)
HttpOk == 200        \* response.status != 200

(***************************************************************************)
(* Values.                                                                 *)
(***************************************************************************)
RECURSIVE Pow(_, _)
Pow(b, e) == IF e = 0 THEN 1 ELSE b * Pow(b, e - 1)

Range(s) == {s[k] : k \in 1..Len(s)}

\* An Item Record, reduced to its key and its name.
Watch(u, n) == [url |-> u, name |-> n]

\* Python's None for an Optional[Dict].
NoWatch == [url |-> 0, name |-> ""]

\* A file on disk: absent, unreadable as JSON, or holding JSON data.
AbsentProgress == [kind |-> "absent", current_page |-> 1, processed_urls |-> {}]
MalformedProgress == [kind |-> "malformed", current_page |-> 1, processed_urls |-> {}]
ProgressJson(p, s) == [kind |-> "json", current_page |-> p, processed_urls |-> s]

AbsentDataset == [kind |-> "absent", watches |-> <<>>]
MalformedDataset == [kind |-> "malformed", watches |-> <<>>]
DatasetJson(ws) == [kind |-> "json", watches |-> ws]

StoredUrls(file) == {file.watches[k].url : k \in 1..Len(file.watches)}

(***************************************************************************)
(* Dataset Store: save_watches_to_json.  The result is the file after the  *)
(* call and whether the call wrote the file.                               *)
(***************************************************************************)
\* existing_watches: [] unless the file exists and parses
ExistingWatches(file) == IF file.kind = "json" THEN file.watches ELSE <<>>

\* new_watches = [w for w in watches if w.get("url") not in existing_urls]
NewWatches(watches, existing) ==
    LET existing_urls == {existing[k].url : k \in 1..Len(existing)}
    IN SelectSeq(watches, LAMBDA w : w.url \notin existing_urls)

SaveWatchesToJson(file, watches) ==
    LET existing_watches == ExistingWatches(file)
        new_watches == NewWatches(watches, existing_watches)
    IN IF new_watches = <<>>
       THEN [file |-> file, wrote |-> FALSE]
       ELSE [file |-> DatasetJson(existing_watches \o new_watches), wrote |-> TRUE]

(***************************************************************************)
(* Progress Store: load_progress, save_progress.                           *)
(***************************************************************************)
\* a default cursor that starts one page late
DefaultProgressPageTwo == [current_page |-> 2, processed_urls |-> {}]

DefaultProgress == [current_page |-> 1, processed_urls |-> {}]

\* bug variant: the cursor file is not read, every run starts from the default
LoadProgressFresh(file) == DefaultProgress

LoadProgress(file) ==
    IF file.kind = "json"
    THEN [current_page |-> file.current_page, processed_urls |-> file.processed_urls]
    ELSE DefaultProgress

\* the save drops the processed urls
SaveProgressWithoutUrls(p, s) == ProgressJson(p, {})

SaveProgress(p, s) == ProgressJson(p, s)

(***************************************************************************)
(* The site.  A catalog is the sequence of its listing pages, each the     *)
(* sequence of item urls the Listing Walker finds on it; a page past the   *)
(* last one lists nothing.                                                 *)
(***************************************************************************)
Catalogs ==
    { << <<1, 2>>, <<3, 4>> >>,
      << <<1, 2>>, <<2, 1>>, <<3>> >>,
      << <<1, -1, 2>>, <<3>> >>,
      << >> }

\* A link target is a number: u > 0 is the absolute url of item u, and -u is
\* a relative path to the same item.  make_absolute_url leaves a url that
\* starts with http:// or https:// as it is and joins any other to BASE_URL.
MakeAbsoluteUrl(url) == IF url < 0 THEN -url ELSE url

\* process_listing_page: the urls of the listing page now loaded, each made
\* absolute
ProcessListingPage(cat, p) ==
    IF p \in 1..Len(cat)
    THEN [k \in 1..Len(cat[p]) |-> MakeAbsoluteUrl(cat[p][k])]
    ELSE <<>>

\* What one load of a listing page meets: page.goto raises, or answers with a
\* status (0: no response), and the listing container renders or not.
PageResponses ==
    { [raises |-> TRUE, status |-> 0, container |-> FALSE],
      [raises |-> FALSE, status |-> 0, container |-> FALSE],
      [raises |-> FALSE, status |-> 429, container |-> FALSE],
      [raises |-> FALSE, status |-> 500, container |-> FALSE],
      [raises |-> FALSE, status |-> 200, container |-> FALSE],
      [raises |-> FALSE, status |-> 200, container |-> TRUE] }

\* What one load of a detail page meets: a step raises, or the name resolves
\* to this text.
DetailPages ==
    { [raises |-> TRUE, name |-> ""],
      [raises |-> FALSE, name |-> ""],
      [raises |-> FALSE, name |-> "Submariner"] }

(***************************************************************************)
(* process_brand_page, the function with_retry wraps: "raise", or the      *)
(* value it returns.                                                       *)
(***************************************************************************)
\* bug variant: the status of the response is not looked at
ProcessBrandPageAnyStatus(resp) ==
    IF resp.raises THEN "raise"
    ELSE IF resp.status = 0 THEN "false"
    ELSE IF ~resp.container THEN "false"
    ELSE "true"

ProcessBrandPage(resp) ==
    IF resp.raises THEN "raise"
    ELSE IF resp.status = 0 \/ resp.status # HttpOk THEN "false"
    ELSE IF ~resp.container THEN "false"
    ELSE "true"

\* bug variant: the loop goes round once more than max_retries allows
WithRetryOnRaiseOnceMore(retries) ==
    [retries |-> retries + 1,
     sleep_time |-> Pow(BackoffFactor, retries + 1),
     again |-> retries + 1 <= MaxRetries]

\* with_retry's wrapper after the wrapped function raised with `retries`
\* earlier failures: the sleep, and whether the loop goes round again.
WithRetryOnRaise(retries) ==
    [retries |-> retries + 1,
     sleep_time |-> Pow(BackoffFactor, retries + 1),
     again |-> retries + 1 < MaxRetries]

(***************************************************************************)
(* process_watch_detail: the record, or None.                              *)
(***************************************************************************)
\* the record is built also when the name is empty
ProcessWatchDetailAnyName(url, d) ==
    IF d.raises THEN NoWatch
    ELSE Watch(MakeAbsoluteUrl(url), d.name)

ProcessWatchDetail(url, d) ==
    IF d.raises THEN NoWatch
    ELSE IF d.name = "" THEN NoWatch
    ELSE Watch(MakeAbsoluteUrl(url), d.name)

(***************************************************************************)
(* The pre-flight check.  A sample is what the brand's first listing page  *)
(* and its first item page show.  smoke_test_selectors returns False for   *)
(* any exception, for a missing container, link, name or price element,    *)
(* and when no selector of SPEC_TABLES matches.                            *)
(***************************************************************************)
SmokeSamples ==
    [raises : BOOLEAN, container : BOOLEAN, link : BOOLEAN,
     name : BOOLEAN, price : BOOLEAN, tables : BOOLEAN]

SmokeTestSelectors(sample) ==
    IF sample.raises THEN FALSE
    ELSE IF ~sample.container THEN FALSE
    ELSE IF ~sample.link THEN FALSE
    ELSE IF ~sample.name THEN FALSE
    ELSE IF ~sample.price THEN FALSE
    ELSE IF ~sample.tables THEN FALSE
    ELSE TRUE

\* the check fails and main returns, as it does when the brand is not found
OnSmokeFailureReturn == [pc |-> "done", exit |-> 0]

\* main on a failed check: sys.exit(1).  SystemExit is no Exception, so
\* main's except clause lets it pass, and the process exits with status 1.
OnSmokeFailure == [pc |-> "done", exit |-> 1]

\* the page loop stops one page later
InRangeInclusive(p) == p <= PageLimit

\* for page_num in range(start_page, 100): the pages the loop takes
InRange(p) == p < PageLimit

(***************************************************************************)
(* process_brand: the pieces of its loop.                                  *)
(***************************************************************************)
\* bug variant: the urls of the page are taken as they are, processed or not
NewUrlsUnfiltered(watch_urls, processed) == watch_urls

\* bug variant: the new urls are taken from the end of the listing backwards
NewUrlsReversed(watch_urls, processed) ==
    LET kept == SelectSeq(watch_urls, LAMBDA u : u \notin processed)
    IN [k \in 1..Len(kept) |-> kept[Len(kept) + 1 - k]]

\* new_urls = [url for url in watch_urls if url not in processed_urls]
NewUrls(watch_urls, processed) == SelectSeq(watch_urls, LAMBDA u : u \notin processed)

\* bug variant: pagination ends on an empty listing only
StopOnEmptyListing(watch_urls, urls) == watch_urls = <<>>

\* the two breaks that end pagination after a listing page
StopPagination(watch_urls, urls) == watch_urls = <<>> \/ urls = <<>>

\* the next iteration of "for i, url in enumerate(new_urls, 1)", or the end
\* of the loop
NextItem(idx, urls) ==
    IF idx < Len(urls) THEN [pc |-> "item", i |-> idx + 1]
    ELSE [pc |-> "pagesave", i |-> idx + 1]

\* bug variant: an error in the item loop leaves the loop for the brand's
\* except clause
OnItemErrorAbort(idx, urls) == [pc |-> "except", i |-> idx]

\* except Exception ... continue, inside the item loop
OnItemError(idx, urls) == NextItem(idx, urls)

\* bug variant: the page save does not advance the page
SameCursorPage(p) == p

\* the cursor saved after an item, and after a page
ItemCursorPage(p) == p
NextCursorPage(p) == p + 1

\* the except clause saves the page after the one that failed
ExceptCursorPageNext(p) == p + 1

\* process_brand's except clause: "current_page": page_num
ExceptCursorPage(p) == p

(***************************************************************************)
(* State.                                                                  *)
(***************************************************************************)
VARIABLES
    catalog,         \* the site's listing pages
    progressFile,    \* data/progress/<brand>_progress.json
    datasetFile,     \* data/rolex_watches.json
    pc,              \* where main / process_brand stands
    page_num,        \* process_brand's loop variable
    processed_urls,  \* process_brand's set
    brand_watches,   \* process_brand's list of records
    new_urls,        \* the new urls of the current page
    i,               \* the item loop's index
    watch_data,      \* the record of the current item
    retries,         \* with_retry's counter
    all_watches,     \* main's list
    \* history, read by the properties only
    runs,            \* runs started
    kills,           \* kills so far
    faults,          \* environment failures so far
    torn,            \* a kill has cut a file write short
    startFile,       \* the cursor file as this run found it
    requested,       \* listing pages requested in this run, in order
    fetched,         \* <<page, url>> of the detail pages fetched in this run
    nwrites,         \* Dataset file writes of this run
    backoff,         \* with_retry's sleeps for the current page
    attempts,        \* invocations of process_brand_page for the current page
    gaveUp,          \* the current page's load was given up
    ended,           \* the page whose listing had nothing new (0: none)
    itemAttempts,    \* invocations of process_watch_detail for the current item
    itemFresh,       \* the current item's url was neither processed nor stored
    itemFailures,    \* items whose handling failed in this run
    skipKind,        \* how the last failed item failed
    skipAttempts,    \* invocations of process_watch_detail for that item
    smoke,           \* the outcome of this run's smoke test
    exitStatus,      \* the exit status of the run that ended last
    diskFaults,      \* save calls of this run that raised
    delayed,         \* a polite delay has been slept since the last request
    prevNormal,      \* the run before this one ended on a page with nothing new
    everProcessed,   \* every url a completed cursor save has persisted
    maxPage,         \* the largest current_page a completed save has persisted
    \* the Dataset Store driven alone
    called,          \* a call has been made
    batch,           \* the batch of the last call
    repeated,        \* the call before it was given the same batch
    hadNew,          \* some record of the batch had a url not yet stored
    wrote,           \* whether the last call wrote the file
    \* a pure function called alone
    fnIn,            \* its arguments
    fnOut            \* what it returned

process == <<pc, page_num, processed_urls, brand_watches, new_urls, i, watch_data,
             retries, all_watches>>
perRun == <<startFile, requested, fetched, nwrites, backoff, attempts, gaveUp, ended,
            itemAttempts, itemFresh, itemFailures, skipKind, skipAttempts>>
conduct == <<smoke, exitStatus, diskFaults, delayed, prevNormal>>
saved == <<everProcessed, maxPage>>
store == <<called, batch, repeated, hadNew, wrote>>
calc == <<fnIn, fnOut>>
vars == <<catalog, progressFile, datasetFile, process, runs, kills, faults, torn,
          perRun, conduct, saved, store, calc>>
\* all but pc and fnOut
others == <<catalog, progressFile, datasetFile, page_num, processed_urls, brand_watches,
            new_urls, i, watch_data, retries, all_watches, runs, kills, faults, torn,
            perRun, conduct, saved, store, fnIn>>

Max(a, b) == IF a >= b THEN a ELSE b

Running == pc \in {"page", "listing", "item", "append", "cursor", "pagesave",
                   "except", "returned", "mainexcept"}

\* The process's memory before process_brand has run.
Blank ==
    /\ page_num = 0
    /\ processed_urls = {}
    /\ brand_watches = <<>>
    /\ new_urls = <<>>
    /\ i = 0
    /\ watch_data = NoWatch
    /\ retries = 0
    /\ all_watches = <<>>

BlankHistory ==
    /\ requested = <<>>
    /\ fetched = <<>>
    /\ nwrites = 0
    /\ backoff = <<>>
    /\ attempts = 0
    /\ gaveUp = FALSE
    /\ ended = 0
    /\ itemAttempts = 0
    /\ itemFresh = FALSE
    /\ itemFailures = 0
    /\ skipKind = "none"
    /\ skipAttempts = 0
    /\ smoke = "none"
    /\ exitStatus = 0
    /\ diskFaults = 0
    /\ delayed = FALSE
    /\ prevNormal = FALSE

IdleStore ==
    /\ called = FALSE
    /\ batch = <<>>
    /\ repeated = FALSE
    /\ hadNew = FALSE
    /\ wrote = FALSE

IdleCalc ==
    /\ fnIn = <<>>
    /\ fnOut = <<>>

Init ==
    /\ catalog \in Catalogs
    /\ progressFile = AbsentProgress
    /\ datasetFile = AbsentDataset
    /\ pc = "idle"
    /\ Blank
    /\ runs = 0
    /\ kills = 0
    /\ faults = 0
    /\ torn = FALSE
    /\ startFile = AbsentProgress
    /\ BlankHistory
    /\ everProcessed = {}
    /\ maxPage = 0
    /\ IdleStore
    /\ IdleCalc

\* A completed save_progress call.
Persist(p, s) ==
    /\ progressFile' = SaveProgress(p, s)
    /\ everProcessed' = everProcessed \cup s
    /\ maxPage' = Max(maxPage, p)

\* An injected failure.  The raises of one page load, retry after retry, count
\* as one.
Fault ==
    /\ faults < MaxFaults
    /\ faults' = faults + 1

ResetProcess ==
    /\ page_num' = 0
    /\ processed_urls' = {}
    /\ brand_watches' = <<>>
    /\ new_urls' = <<>>
    /\ i' = 0
    /\ watch_data' = NoWatch
    /\ retries' = 0
    /\ all_watches' = <<>>

ResetHistory ==
    /\ requested' = <<>>
    /\ fetched' = <<>>
    /\ nwrites' = 0
    /\ backoff' = <<>>
    /\ attempts' = 0
    /\ gaveUp' = FALSE
    /\ ended' = 0
    /\ itemAttempts' = 0
    /\ itemFresh' = FALSE
    /\ itemFailures' = 0
    /\ skipKind' = "none"
    /\ skipAttempts' = 0
    /\ smoke' = "none"
    /\ exitStatus' = 0
    /\ diskFaults' = 0
    /\ delayed' = FALSE
    /\ prevNormal' = FALSE

(***************************************************************************)
(* main calls process_brand, which loads the cursor and enters its loop:   *)
(* for page_num in range(start_page, 100).                                 *)
(***************************************************************************)
ProcessBrandEntry ==
    /\ pc \in {"idle", "done"}
    /\ runs < MaxRuns
    /\ {sample \in SmokeSamples : SmokeTestSelectors(sample)} # {}
    /\ runs' = runs + 1
    /\ startFile' = progressFile
    /\ LET progress == LoadProgress(progressFile)
           start_page == progress.current_page
       IN /\ processed_urls' = progress.processed_urls
          /\ IF InRange(start_page)
             THEN pc' = "page" /\ page_num' = start_page
             ELSE pc' = "returned" /\ page_num' = 0
    /\ brand_watches' = <<>>
    /\ new_urls' = <<>>
    /\ i' = 0
    /\ watch_data' = NoWatch
    /\ retries' = 0
    /\ all_watches' = <<>>
    /\ requested' = <<>>
    /\ fetched' = <<>>
    /\ nwrites' = 0
    /\ backoff' = <<>>
    /\ attempts' = 0
    /\ gaveUp' = FALSE
    /\ ended' = 0
    /\ itemAttempts' = 0
    /\ itemFresh' = FALSE
    /\ itemFailures' = 0
    /\ skipKind' = "none"
    /\ skipAttempts' = 0
    /\ smoke' = "passed"
    /\ exitStatus' = 0
    /\ diskFaults' = 0
    /\ delayed' = FALSE
    /\ prevNormal' = (pc = "done" /\ smoke = "passed" /\ ended # 0)
    /\ UNCHANGED <<catalog, progressFile, datasetFile, kills, faults, torn, saved,
                   store, calc>>

(***************************************************************************)
(* main when the pre-flight check fails: the run ends before process_brand *)
(* is called.                                                              *)
(***************************************************************************)
SmokeFailed ==
    /\ pc \in {"idle", "done"}
    /\ runs < MaxRuns
    /\ {sample \in SmokeSamples : ~SmokeTestSelectors(sample)} # {}
    /\ Fault
    /\ runs' = runs + 1
    /\ startFile' = progressFile
    /\ ResetProcess
    /\ requested' = <<>>
    /\ fetched' = <<>>
    /\ nwrites' = 0
    /\ backoff' = <<>>
    /\ attempts' = 0
    /\ gaveUp' = FALSE
    /\ ended' = 0
    /\ itemAttempts' = 0
    /\ itemFresh' = FALSE
    /\ itemFailures' = 0
    /\ skipKind' = "none"
    /\ skipAttempts' = 0
    /\ smoke' = "failed"
    /\ pc' = OnSmokeFailure.pc
    /\ exitStatus' = OnSmokeFailure.exit
    /\ diskFaults' = 0
    /\ delayed' = FALSE
    /\ prevNormal' = FALSE
    /\ UNCHANGED <<catalog, progressFile, datasetFile, kills, torn, saved, store, calc>>

(***************************************************************************)
(* One invocation of process_brand_page by with_retry's wrapper.           *)
(***************************************************************************)
\* the page loads: adaptive delay, return True
PageLoaded ==
    /\ pc = "page"
    /\ \E resp \in PageResponses :
        /\ ProcessBrandPage(resp) = "true"
        /\ requested' = Append(requested, page_num)
        /\ attempts' = attempts + 1
        /\ pc' = "listing"
    /\ delayed' = FALSE
    /\ UNCHANGED <<smoke, exitStatus, diskFaults, prevNormal>>
    /\ UNCHANGED <<catalog, progressFile, datasetFile, page_num, processed_urls,
                   brand_watches, new_urls, i, watch_data, retries, all_watches,
                   runs, kills, faults, torn, startFile, fetched, nwrites, backoff,
                   gaveUp, ended, itemAttempts, itemFresh, itemFailures, skipKind,
                   skipAttempts, saved, store, calc>>

\* return False: the wrapper returns it, and process_brand breaks
PageFailed ==
    /\ pc = "page"
    /\ \E resp \in PageResponses :
        /\ ProcessBrandPage(resp) = "false"
        /\ Fault
        /\ requested' = Append(requested, page_num)
        /\ attempts' = attempts + 1
        /\ gaveUp' = TRUE
        /\ pc' = "returned"
    /\ delayed' = FALSE
    /\ UNCHANGED <<smoke, exitStatus, diskFaults, prevNormal>>
    /\ UNCHANGED <<catalog, progressFile, datasetFile, page_num, processed_urls,
                   brand_watches, new_urls, i, watch_data, retries, all_watches,
                   runs, kills, torn, startFile, fetched, nwrites, backoff,
                   ended, itemAttempts, itemFresh, itemFailures, skipKind,
                   skipAttempts, saved, store, calc>>

\* page.goto raises: the wrapper sleeps, then tries again or re-raises to
\* process_brand's except clause
PageRaised ==
    /\ pc = "page"
    /\ \E resp \in PageResponses :
        /\ ProcessBrandPage(resp) = "raise"
        /\ IF retries = 0 THEN Fault ELSE UNCHANGED faults
        /\ requested' = Append(requested, page_num)
        /\ attempts' = attempts + 1
        /\ LET w == WithRetryOnRaise(retries)
           IN /\ retries' = w.retries
              /\ backoff' = Append(backoff, w.sleep_time)
              /\ gaveUp' = ~w.again
              /\ pc' = IF w.again THEN "page" ELSE "except"
    /\ delayed' = FALSE
    /\ UNCHANGED <<smoke, exitStatus, diskFaults, prevNormal>>
    /\ UNCHANGED <<catalog, progressFile, datasetFile, page_num, processed_urls,
                   brand_watches, new_urls, i, watch_data, all_watches,
                   runs, kills, torn, startFile, fetched, nwrites,
                   ended, itemAttempts, itemFresh, itemFailures, skipKind,
                   skipAttempts, saved, store, calc>>

(***************************************************************************)
(* The Listing Walker's urls, the filter, and the two breaks.              *)
(***************************************************************************)
ListingStep ==
    /\ pc = "listing"
    /\ LET watch_urls == ProcessListingPage(catalog, page_num)
           urls == NewUrls(watch_urls, processed_urls)
       IN /\ ended' = IF \A k \in 1..Len(watch_urls) : watch_urls[k] \in processed_urls
                      THEN page_num ELSE 0
          /\ IF StopPagination(watch_urls, urls)
             THEN /\ pc' = "returned"
                  /\ UNCHANGED <<new_urls, i>>
             ELSE /\ new_urls' = urls
                  /\ i' = 1
                  /\ pc' = IF urls = <<>> THEN "pagesave" ELSE "item"
    /\ itemAttempts' = 0
    /\ UNCHANGED <<smoke, exitStatus, diskFaults, delayed, prevNormal>>
    /\ UNCHANGED <<catalog, progressFile, datasetFile, page_num, processed_urls,
                   brand_watches, watch_data, retries, all_watches,
                   runs, kills, faults, torn, startFile, requested, fetched, nwrites,
                   backoff, attempts, gaveUp, itemFresh, itemFailures, skipKind,
                   skipAttempts, saved, store, calc>>

(***************************************************************************)
(* The item loop: process_watch_detail, then, for a record, the Dataset    *)
(* append, processed_urls.add, the cursor save, and the polite delay.      *)
(***************************************************************************)
\* process_watch_detail returns a record
WatchExtracted ==
    /\ pc = "item"
    /\ \E d \in DetailPages :
        /\ ProcessWatchDetail(new_urls[i], d) # NoWatch
        /\ watch_data' = ProcessWatchDetail(new_urls[i], d)
    /\ fetched' = Append(fetched, <<page_num, new_urls[i]>>)
    /\ itemAttempts' = itemAttempts + 1
    /\ itemFresh' = (new_urls[i] \notin processed_urls
                     /\ new_urls[i] \notin StoredUrls(datasetFile))
    /\ pc' = "append"
    /\ delayed' = FALSE
    /\ UNCHANGED <<smoke, exitStatus, diskFaults, prevNormal>>
    /\ UNCHANGED <<catalog, progressFile, datasetFile, page_num, processed_urls,
                   brand_watches, new_urls, i, retries, all_watches,
                   runs, kills, faults, torn, startFile, requested, nwrites,
                   backoff, attempts, gaveUp, ended, itemFailures, skipKind,
                   skipAttempts, saved, store, calc>>

\* process_watch_detail returns None: polite delay, next item
WatchAbsent ==
    /\ pc = "item"
    /\ \E d \in DetailPages :
        /\ ProcessWatchDetail(new_urls[i], d) = NoWatch
        /\ skipKind' = IF d.raises THEN "raised" ELSE "empty_name"
    /\ Fault
    /\ watch_data' = NoWatch
    /\ fetched' = Append(fetched, <<page_num, new_urls[i]>>)
    /\ itemFresh' = (new_urls[i] \notin processed_urls
                     /\ new_urls[i] \notin StoredUrls(datasetFile))
    /\ itemFailures' = itemFailures + 1
    /\ skipAttempts' = itemAttempts + 1
    /\ itemAttempts' = 0
    /\ pc' = NextItem(i, new_urls).pc
    /\ i' = NextItem(i, new_urls).i
    /\ delayed' = TRUE
    /\ UNCHANGED <<smoke, exitStatus, diskFaults, prevNormal>>
    /\ UNCHANGED <<catalog, progressFile, datasetFile, page_num, processed_urls,
                   brand_watches, new_urls, retries, all_watches,
                   runs, kills, torn, startFile, requested, nwrites,
                   backoff, attempts, gaveUp, ended, saved, store, calc>>

\* brand_watches.append, save_watches_to_json([watch_data]), processed_urls.add
WatchSaved ==
    /\ pc = "append"
    /\ brand_watches' = Append(brand_watches, watch_data)
    /\ LET r == SaveWatchesToJson(datasetFile, <<watch_data>>)
       IN /\ datasetFile' = r.file
          /\ nwrites' = IF r.wrote THEN nwrites + 1 ELSE nwrites
    /\ processed_urls' = processed_urls \cup {new_urls[i]}
    /\ pc' = "cursor"
    /\ UNCHANGED <<smoke, exitStatus, diskFaults, delayed, prevNormal>>
    /\ UNCHANGED <<catalog, progressFile, page_num, new_urls, i, watch_data, retries,
                   all_watches, runs, kills, faults, torn, startFile, requested,
                   fetched, backoff, attempts, gaveUp, ended, itemAttempts, itemFresh,
                   itemFailures, skipKind, skipAttempts, saved, store, calc>>

\* save_watches_to_json raises before it writes: except ... continue
WatchSaveRaised ==
    /\ pc = "append"
    /\ Fault
    /\ brand_watches' = Append(brand_watches, watch_data)
    /\ itemFailures' = itemFailures + 1
    /\ skipKind' = "append_raised"
    /\ skipAttempts' = itemAttempts
    /\ itemAttempts' = 0
    /\ pc' = OnItemError(i, new_urls).pc
    /\ i' = OnItemError(i, new_urls).i
    /\ diskFaults' = diskFaults + 1
    /\ UNCHANGED <<smoke, exitStatus, delayed, prevNormal>>
    /\ UNCHANGED <<catalog, progressFile, datasetFile, page_num, processed_urls,
                   new_urls, watch_data, retries, all_watches,
                   runs, kills, torn, startFile, requested, fetched, nwrites,
                   backoff, attempts, gaveUp, ended, itemFresh, saved, store, calc>>

\* save_progress({current_page: page_num, ...}), polite delay, next item
CursorSaved ==
    /\ pc = "cursor"
    /\ Persist(ItemCursorPage(page_num), processed_urls)
    /\ itemAttempts' = 0
    /\ pc' = NextItem(i, new_urls).pc
    /\ i' = NextItem(i, new_urls).i
    /\ delayed' = TRUE
    /\ UNCHANGED <<smoke, exitStatus, diskFaults, prevNormal>>
    /\ UNCHANGED <<catalog, datasetFile, page_num, processed_urls, brand_watches,
                   new_urls, watch_data, retries, all_watches,
                   runs, kills, faults, torn, startFile, requested, fetched, nwrites,
                   backoff, attempts, gaveUp, ended, itemFresh, itemFailures,
                   skipKind, skipAttempts, store, calc>>

\* save_progress raises before it writes: except ... continue
CursorSaveRaised ==
    /\ pc = "cursor"
    /\ Fault
    /\ itemFailures' = itemFailures + 1
    /\ skipKind' = "cursor_raised"
    /\ skipAttempts' = itemAttempts
    /\ itemAttempts' = 0
    /\ pc' = OnItemError(i, new_urls).pc
    /\ i' = OnItemError(i, new_urls).i
    /\ diskFaults' = diskFaults + 1
    /\ UNCHANGED <<smoke, exitStatus, delayed, prevNormal>>
    /\ UNCHANGED <<catalog, progressFile, datasetFile, page_num, processed_urls,
                   brand_watches, new_urls, watch_data, retries, all_watches,
                   runs, kills, torn, startFile, requested, fetched, nwrites,
                   backoff, attempts, gaveUp, ended, itemFresh, saved, store, calc>>

(***************************************************************************)
(* After the items of a page: the cursor save with the next page, and the  *)
(* next iteration of the page loop, or its end at the ceiling.             *)
(***************************************************************************)
PageSaved ==
    /\ pc = "pagesave"
    /\ Persist(NextCursorPage(page_num), processed_urls)
    /\ IF InRange(page_num + 1)
       THEN /\ pc' = "page"
            /\ page_num' = page_num + 1
       ELSE /\ pc' = "returned"
            /\ UNCHANGED page_num
    /\ retries' = 0
    /\ backoff' = <<>>
    /\ attempts' = 0
    /\ UNCHANGED <<smoke, exitStatus, diskFaults, delayed, prevNormal>>
    /\ UNCHANGED <<catalog, datasetFile, processed_urls, brand_watches,
                   new_urls, i, watch_data, all_watches,
                   runs, kills, faults, torn, startFile, requested, fetched, nwrites,
                   gaveUp, ended, itemAttempts, itemFresh, itemFailures,
                   skipKind, skipAttempts, store, calc>>

\* save_progress raises: process_brand's except clause
PageSaveRaised ==
    /\ pc = "pagesave"
    /\ Fault
    /\ pc' = "except"
    /\ diskFaults' = diskFaults + 1
    /\ UNCHANGED <<smoke, exitStatus, delayed, prevNormal>>
    /\ UNCHANGED <<catalog, progressFile, datasetFile, page_num, processed_urls,
                   brand_watches, new_urls, i, watch_data, retries, all_watches,
                   runs, kills, torn, startFile, requested, fetched, nwrites,
                   backoff, attempts, gaveUp, ended, itemAttempts, itemFresh,
                   itemFailures, skipKind, skipAttempts, saved, store, calc>>

(***************************************************************************)
(* process_brand's except clause: save the cursor with page_num, return    *)
(* the records.                                                            *)
(***************************************************************************)
ExceptSaved ==
    /\ pc = "except"
    /\ Persist(ExceptCursorPage(page_num), processed_urls)
    /\ pc' = "returned"
    /\ UNCHANGED <<smoke, exitStatus, diskFaults, delayed, prevNormal>>
    /\ UNCHANGED <<catalog, datasetFile, page_num, processed_urls, brand_watches,
                   new_urls, i, watch_data, retries, all_watches,
                   runs, kills, faults, torn, perRun, store, calc>>

\* the save raises too: the error leaves process_brand for main's except
ExceptSaveRaised ==
    /\ pc = "except"
    /\ Fault
    /\ pc' = "mainexcept"
    /\ diskFaults' = diskFaults + 1
    /\ UNCHANGED <<smoke, exitStatus, delayed, prevNormal>>
    /\ UNCHANGED <<catalog, progressFile, datasetFile, page_num, processed_urls,
                   brand_watches, new_urls, i, watch_data, retries, all_watches,
                   runs, kills, torn, perRun, saved, store, calc>>

(***************************************************************************)
(* main after process_brand: all_watches.extend, and the save of them all  *)
(* when there are any; its except clause saves them once more.             *)
(***************************************************************************)
MainSaved ==
    /\ pc = "returned"
    /\ all_watches' = brand_watches
    /\ LET r == IF brand_watches # <<>>
                THEN SaveWatchesToJson(datasetFile, brand_watches)
                ELSE [file |-> datasetFile, wrote |-> FALSE]
       IN /\ datasetFile' = r.file
          /\ nwrites' = IF r.wrote THEN nwrites + 1 ELSE nwrites
    /\ pc' = "done"
    /\ UNCHANGED <<smoke, exitStatus, diskFaults, delayed, prevNormal>>
    /\ UNCHANGED <<catalog, progressFile, page_num, processed_urls, brand_watches,
                   new_urls, i, watch_data, retries,
                   runs, kills, faults, torn, startFile, requested, fetched,
                   backoff, attempts, gaveUp, ended, itemAttempts, itemFresh,
                   itemFailures, skipKind, skipAttempts, saved, store, calc>>

MainSaveRaised ==
    /\ pc = "returned"
    /\ brand_watches # <<>>
    /\ Fault
    /\ all_watches' = brand_watches
    /\ pc' = "mainexcept"
    /\ diskFaults' = diskFaults + 1
    /\ UNCHANGED <<smoke, exitStatus, delayed, prevNormal>>
    /\ UNCHANGED <<catalog, progressFile, datasetFile, page_num, processed_urls,
                   brand_watches, new_urls, i, watch_data, retries,
                   runs, kills, torn, perRun, saved, store, calc>>

MainExceptSaved ==
    /\ pc = "mainexcept"
    /\ LET r == IF all_watches # <<>>
                THEN SaveWatchesToJson(datasetFile, all_watches)
                ELSE [file |-> datasetFile, wrote |-> FALSE]
       IN /\ datasetFile' = r.file
          /\ nwrites' = IF r.wrote THEN nwrites + 1 ELSE nwrites
    /\ pc' = "done"
    /\ UNCHANGED <<smoke, exitStatus, diskFaults, delayed, prevNormal>>
    /\ UNCHANGED <<catalog, progressFile, page_num, processed_urls, brand_watches,
                   new_urls, i, watch_data, retries, all_watches,
                   runs, kills, faults, torn, startFile, requested, fetched,
                   backoff, attempts, gaveUp, ended, itemAttempts, itemFresh,
                   itemFailures, skipKind, skipAttempts, saved, store, calc>>

MainExceptSaveRaised ==
    /\ pc = "mainexcept"
    /\ all_watches # <<>>
    /\ Fault
    /\ pc' = "done"
    /\ diskFaults' = diskFaults + 1
    /\ exitStatus' = 1
    /\ UNCHANGED <<smoke, delayed, prevNormal>>
    /\ UNCHANGED <<catalog, progressFile, datasetFile, page_num, processed_urls,
                   brand_watches, new_urls, i, watch_data, retries, all_watches,
                   runs, kills, torn, perRun, saved, store, calc>>

(***************************************************************************)
(* The process is killed.  Between two steps the files stay as they are;   *)
(* in the middle of a write the file is left truncated or partial, which   *)
(* json.load rejects.                                                      *)
(***************************************************************************)
Kill ==
    /\ Running
    /\ kills < MaxKills
    /\ kills' = kills + 1
    /\ pc' = "idle"
    /\ ResetProcess
    /\ ResetHistory
    /\ UNCHANGED <<catalog, progressFile, datasetFile, runs, faults, torn, startFile,
                   saved, store, calc>>

KillInSaveProgress ==
    /\ pc \in {"cursor", "pagesave", "except"}
    /\ kills < MaxKills
    /\ kills' = kills + 1
    /\ progressFile' = MalformedProgress
    /\ torn' = TRUE
    /\ pc' = "idle"
    /\ ResetProcess
    /\ ResetHistory
    /\ UNCHANGED <<catalog, datasetFile, runs, faults, startFile, saved, store, calc>>

\* the batch a save_watches_to_json call at this point would be given
PendingBatch ==
    IF pc = "append" THEN <<watch_data>>
    ELSE IF pc = "returned" THEN brand_watches
    ELSE IF pc = "mainexcept" THEN all_watches
    ELSE <<>>

KillInSaveWatches ==
    /\ pc \in {"append", "returned", "mainexcept"}
    /\ PendingBatch # <<>>
    /\ SaveWatchesToJson(datasetFile, PendingBatch).wrote
    /\ kills < MaxKills
    /\ kills' = kills + 1
    /\ datasetFile' = MalformedDataset
    /\ torn' = TRUE
    /\ pc' = "idle"
    /\ ResetProcess
    /\ ResetHistory
    /\ UNCHANGED <<catalog, progressFile, runs, faults, startFile, saved, store, calc>>

Next ==
    \/ ProcessBrandEntry
    \/ SmokeFailed
    \/ PageLoaded
    \/ PageFailed
    \/ PageRaised
    \/ ListingStep
    \/ WatchExtracted
    \/ WatchAbsent
    \/ WatchSaved
    \/ WatchSaveRaised
    \/ CursorSaved
    \/ CursorSaveRaised
    \/ PageSaved
    \/ PageSaveRaised
    \/ ExceptSaved
    \/ ExceptSaveRaised
    \/ MainSaved
    \/ MainSaveRaised
    \/ MainExceptSaved
    \/ MainExceptSaveRaised
    \/ Kill
    \/ KillInSaveProgress
    \/ KillInSaveWatches

Spec == Init /\ [][Next]_vars

(***************************************************************************)
(* The Dataset Store alone: save_watches_to_json called again and again,   *)
(* each time with any batch of records.                                    *)
(***************************************************************************)
StoreNames == {"Submariner", "Daytona"}

StoreRecords == {Watch(u, n) : u \in 1..NumStoreUrls, n \in StoreNames}

Batches == UNION {[1..n -> StoreRecords] : n \in 0..MaxBatch}

InitStore ==
    /\ catalog = <<>>
    /\ progressFile = AbsentProgress
    /\ datasetFile = AbsentDataset
    /\ pc = "idle"
    /\ Blank
    /\ runs = 0
    /\ kills = 0
    /\ faults = 0
    /\ torn = FALSE
    /\ startFile = AbsentProgress
    /\ BlankHistory
    /\ everProcessed = {}
    /\ maxPage = 0
    /\ IdleStore
    /\ IdleCalc

StoreAppend ==
    \E b \in Batches :
        /\ called' = TRUE
        /\ batch' = b
        /\ repeated' = (called /\ b = batch)
        /\ hadNew' = (\E k \in 1..Len(b) : b[k].url \notin StoredUrls(datasetFile))
        /\ datasetFile' = SaveWatchesToJson(datasetFile, b).file
        /\ wrote' = SaveWatchesToJson(datasetFile, b).wrote
        /\ UNCHANGED <<catalog, progressFile, process, runs, kills, faults, torn,
                       perRun, conduct, saved, calc>>

NextStore == StoreAppend

SpecStore == InitStore /\ [][NextStore]_vars

(***************************************************************************)
(* process_brand on a catalog that never ends: every listing page shows    *)
(* one url not seen before, every page and every item loads, every save    *)
(* succeeds.                                                               *)
(***************************************************************************)
EndlessCatalog == [p \in 1..(PageLimit + 1) |-> <<p>>]

InitCeiling ==
    /\ catalog = EndlessCatalog
    /\ progressFile = AbsentProgress
    /\ datasetFile = AbsentDataset
    /\ pc = "idle"
    /\ Blank
    /\ runs = 0
    /\ kills = 0
    /\ faults = 0
    /\ torn = FALSE
    /\ startFile = AbsentProgress
    /\ BlankHistory
    /\ everProcessed = {}
    /\ maxPage = 0
    /\ IdleStore
    /\ IdleCalc

NextCeiling ==
    \/ ProcessBrandEntry
    \/ PageLoaded
    \/ ListingStep
    \/ WatchExtracted
    \/ WatchSaved
    \/ CursorSaved
    \/ PageSaved
    \/ MainSaved

SpecCeiling == InitCeiling /\ [][NextCeiling]_vars

(***************************************************************************)
(* A pure function called alone: the arguments are drawn at the start, the *)
(* call is one step, and nothing else of the program takes part.           *)
(***************************************************************************)
NothingElse ==
    /\ catalog = <<>>
    /\ progressFile = AbsentProgress
    /\ datasetFile = AbsentDataset
    /\ Blank
    /\ runs = 0
    /\ kills = 0
    /\ faults = 0
    /\ torn = FALSE
    /\ startFile = AbsentProgress
    /\ BlankHistory
    /\ everProcessed = {}
    /\ maxPage = 0
    /\ IdleStore

(***************************************************************************)
(* adaptive_delay.  Times are counted in quarters of a second, and         *)
(* random.uniform(a, b) is any point of that grid from a to b.  The        *)
(* response times are even numbers of quarters, so that response_time *    *)
(* 1.5 is on the grid; base_delay * 0.5 need not be, and the jitter is any *)
(* grid point r with 2 r <= base_delay.  The operator is the set of values *)
(* the call can return.                                                    *)
(***************************************************************************)
Seconds(n) == 4 * n

Min(a, b) == IF a <= b THEN a ELSE b

ResponseTimes == {2 * k : k \in 0..MaxResponse}

StatusCodes == {200, 404, 429, 500, 503}

AdaptiveDelay(response_time, status_code) ==
    LET base_delay == Min((response_time * 3) \div 2, Seconds(3))
    IN IF status_code >= 429
       THEN {base_delay * 5 + r : r \in Seconds(10)..Seconds(15)}
       ELSE IF status_code >= 500
       THEN {base_delay * 3 + r : r \in Seconds(5)..Seconds(10)}
       ELSE {base_delay + jitter : jitter \in {r \in 0..base_delay : 2 * r <= base_delay}}

InitDelay ==
    /\ NothingElse
    /\ pc = "idle"
    /\ fnIn \in [response_time : ResponseTimes, status_code : StatusCodes]
    /\ fnOut = 0

AdaptiveDelayCall ==
    /\ pc = "idle"
    /\ fnOut' \in AdaptiveDelay(fnIn.response_time, fnIn.status_code)
    /\ pc' = "done"
    /\ UNCHANGED others

NextDelay == AdaptiveDelayCall

SpecDelay == InitDelay /\ [][NextDelay]_vars

(***************************************************************************)
(* get_pagination_url.  A string is the sequence of its characters.        *)
(***************************************************************************)
\* the first position from k on that holds a character of cs; past the end
\* when there is none
Find(str, cs, k) ==
    LET hits == {j \in k..Len(str) : str[j] \in cs}
    IN IF hits = {} THEN Len(str) + 1 ELSE CHOOSE j \in hits : \A h \in hits : j <= h

\* urllib.parse.urlparse on a url without ';': the scheme before the first
\* ':', the netloc after '//' up to the first of '/', '?', '#', then the
\* fragment after the first '#' and the query after the first '?'
UrlParse(url) ==
    LET colon == Find(url, {":"}, 1)
        slashes == SubSeq(url, colon + 1, colon + 2) = <<"/", "/">>
        netloc_from == IF slashes THEN colon + 3 ELSE colon + 1
        netloc_to == IF slashes THEN Find(url, {"/", "?", "#"}, netloc_from)
                     ELSE netloc_from
        hash == Find(url, {"#"}, netloc_to)
        question == Min(Find(url, {"?"}, netloc_to), hash)
    IN [scheme |-> SubSeq(url, 1, colon - 1),
        netloc |-> SubSeq(url, netloc_from, netloc_to - 1),
        path |-> SubSeq(url, netloc_to, question - 1),
        query |-> SubSeq(url, question + 1, hash - 1),
        fragment |-> SubSeq(url, hash + 1, Len(url))]

\* str.endswith
EndsWith(str, suffix) ==
    /\ Len(str) >= Len(suffix)
    /\ SubSeq(str, Len(str) - Len(suffix) + 1, Len(str)) = suffix

\* f"{page_num}"
RECURSIVE Decimal(_)
Decimal(n) ==
    LET digit == <<"0", "1", "2", "3", "4", "5", "6", "7", "8", "9">>[(n % 10) + 1]
    IN IF n < 10 THEN <<digit>> ELSE Decimal(n \div 10) \o <<digit>>

\* the page's file name is appended, whatever the path ends with
NewPathAppended(path, page_number) ==
    path \o <<"/", "i", "n", "d", "e", "x", "-">> \o Decimal(page_number) \o <<".", "h", "t", "m">>

\* new_path, by what the path ends with
NewPath(path, page_number) ==
    IF EndsWith(path, <<"i", "n", "d", "e", "x", ".", "h", "t", "m">>)
    THEN SubSeq(path, 1, Len(path) - 9)
            \o <<"i", "n", "d", "e", "x", "-">> \o Decimal(page_number) \o <<".", "h", "t", "m">>
    ELSE IF EndsWith(path, <<"/">>)
    THEN path \o <<"i", "n", "d", "e", "x", "-">> \o Decimal(page_number) \o <<".", "h", "t", "m">>
    ELSE path \o <<"/", "i", "n", "d", "e", "x", "-">> \o Decimal(page_number) \o <<".", "h", "t", "m">>

GetPaginationUrl(base_url, page_number) ==
    LET parsed_url == UrlParse(base_url)
        new_path == NewPath(parsed_url.path, page_number)
        pagination_url == parsed_url.scheme \o <<":", "/", "/">> \o parsed_url.netloc \o new_path
    IN IF page_number = 1 THEN base_url
       ELSE IF parsed_url.query # <<>>
       THEN pagination_url \o <<"?">> \o parsed_url.query
       ELSE pagination_url

\* The base urls handed to it, each written from its parts.
UrlPaths ==
    {<<>>,
     <<"/">>,
     <<"/", "b", "r", "a", "n", "d">>,
     <<"/", "b", "r", "a", "n", "d", "/">>,
     <<"/", "b", "r", "a", "n", "d", "/", "i", "n", "d", "e", "x", ".", "h", "t", "m">>,
     <<"/", "i", "n", "d", "e", "x", ".", "h", "t", "m">>,
     <<"/", "b", "r", "a", "n", "d", "/", "m", "y", "i", "n", "d", "e", "x", ".", "h", "t", "m">>,
     <<"/", "b", "r", "a", "n", "d", "/", "i", "n", "d", "e", "x", ".", "h", "t", "m", "l">>}

UrlQueries == {<<>>, <<"p", "=", "1">>}

UrlFragments == {<<>>, <<"t", "o", "p">>}

UrlParts ==
    [scheme : {<<"h", "t", "t", "p", "s">>}, netloc : {<<"x">>}, path : UrlPaths,
     query : UrlQueries, fragment : UrlFragments]

UrlText(parts) ==
    parts.scheme \o <<":", "/", "/">> \o parts.netloc \o parts.path
        \o (IF parts.query = <<>> THEN <<>> ELSE <<"?">> \o parts.query)
        \o (IF parts.fragment = <<>> THEN <<>> ELSE <<"#">> \o parts.fragment)

InitUrl ==
    /\ NothingElse
    /\ pc = "idle"
    /\ \E parts \in UrlParts, n \in 1..MaxPageArg :
            fnIn = [parts |-> parts, base_url |-> UrlText(parts), page_num |-> n]
    /\ fnOut = <<>>

GetPaginationUrlCall ==
    /\ pc = "idle"
    /\ fnOut' = GetPaginationUrl(fnIn.base_url, fnIn.page_num)
    /\ pc' = "done"
    /\ UNCHANGED others

NextUrl == GetPaginationUrlCall

SpecUrl == InitUrl /\ [][NextUrl]_vars

(***************************************************************************)
(* extract_specs.  A text is the sequence of its words and white space;    *)
(* the loader code some cells carry starts with the word                   *)
(* "function docReady".                                                    *)
(***************************************************************************)
WhiteSpace == {" ", "\n"}

\* str.strip
RECURSIVE Strip(_)
Strip(text) ==
    IF text = <<>> THEN <<>>
    ELSE IF Head(text) \in WhiteSpace THEN Strip(Tail(text))
    ELSE IF text[Len(text)] \in WhiteSpace THEN Strip(SubSeq(text, 1, Len(text) - 1))
    ELSE text

\* str.lower, word by word
LowerWord(w) ==
    CASE w = "Basic Info" -> "basic info"
      [] w = "Description" -> "description"
      [] w = "DESCRIPTION" -> "description"
      [] w = "Case" -> "case"
      [] w = "Steel" -> "steel"
      [] OTHER -> w

Lower(text) == [k \in 1..Len(text) |-> LowerWord(text[k])]

\* re.sub(r'.*function docReady[\s\S]*', '', value): '.' stops at a line
\* break, so the match starts where the line of the first
\* "function docReady" starts, and runs to the end of the text
RemoveLoader(text) ==
    LET marks == {k \in 1..Len(text) : text[k] = "function docReady"}
        first == CHOOSE k \in marks : \A h \in marks : k <= h
        breaks == {k \in 1..(first - 1) : text[k] = "\n"}
        line == IF breaks = {} THEN 1
                ELSE 1 + CHOOSE k \in breaks : \A h \in breaks : h <= k
    IN IF marks = {} THEN text ELSE SubSeq(text, 1, line - 1)

\* SELECTORS["SPEC_TABLES"], and the tables of a page each of them matches:
\* a table of the pages handed to extract_specs is in section.data of
\* #detail-page-dealer and not inside a div there, or is a table elsewhere
\* without the class technical-details
SpecTables == <<"section.data table", "section.data div table",
                "table.technical-details", "table">>

TableKinds == {"data", "other"}

Matches(selector, kind) ==
    CASE selector = "section.data table" -> kind = "data"
      [] selector = "section.data div table" -> FALSE
      [] selector = "table.technical-details" -> kind = "technical"
      [] selector = "table" -> TRUE

\* every row is stored under its key
KeepEveryRow(key, value) == key # <<>>

\* the rows that are stored: not the "basic info" row, not the row whose
\* key and value both read "description", not a row without a key
KeepRow(key, value) ==
    LET key_lower == Lower(key)
    IN IF key_lower = <<"basic info">> THEN FALSE
       ELSE IF key_lower = <<"description">> /\ Lower(Strip(value)) = <<"description">>
       THEN FALSE
       ELSE key # <<>>

\* specs[key] = value
Put(specs, key, value) ==
    [k \in (DOMAIN specs) \cup {key} |-> IF k = key THEN value ELSE specs[k]]

RECURSIVE ReadRows(_, _)
ReadRows(specs, rows) ==
    IF rows = <<>> THEN specs
    ELSE LET key == Strip(Head(rows).key.raw)
             value == Strip(RemoveLoader(Strip(Head(rows).value.raw)))
         IN ReadRows(IF KeepRow(key, value) THEN Put(specs, key, value) ELSE specs,
                     Tail(rows))

RECURSIVE TrySelectors(_, _, _)
TrySelectors(page, n, specs) ==
    IF n > Len(SpecTables) THEN specs
    ELSE LET rows == SelectSeq(page, LAMBDA r : Matches(SpecTables[n], r.table))
             found == ReadRows(specs, rows)
         IN IF DOMAIN found # {} THEN found ELSE TrySelectors(page, n + 1, found)

ExtractSpecs(page) == TrySelectors(page, 1, <<>>)

\* The cells of the pages handed to it: what the cell holds, and how it
\* reads once stripped and cleaned.
KeyCells ==
    {[raw |-> <<"Basic Info">>, text |-> <<"Basic Info">>],
     [raw |-> <<"Description">>, text |-> <<"Description">>],
     [raw |-> <<"\n", " ", "DESCRIPTION", " ">>, text |-> <<"DESCRIPTION">>],
     [raw |-> <<"Case">>, text |-> <<"Case">>],
     [raw |-> <<" ">>, text |-> <<>>]}

ValueCells ==
    {[raw |-> <<" ", "Description", "\n">>, text |-> <<"Description">>],
     [raw |-> <<"fine", " ", "watch">>, text |-> <<"fine", " ", "watch">>],
     [raw |-> <<"Steel", " ", "\n", "function docReady", "(){}", "\n", "}">>,
      text |-> <<"Steel">>],
     [raw |-> <<"description", " ", "function docReady", "(){}">>, text |-> <<>>]}

TableRows == [table : TableKinds, key : KeyCells, value : ValueCells]

DetailTables == UNION {[1..n -> TableRows] : n \in 0..MaxRows}

InitSpecs ==
    /\ NothingElse
    /\ pc = "idle"
    /\ fnIn \in DetailTables
    /\ fnOut = <<>>

ExtractSpecsCall ==
    /\ pc = "idle"
    /\ fnOut' = ExtractSpecs(fnIn)
    /\ pc' = "done"
    /\ UNCHANGED others

NextSpecs == ExtractSpecsCall

SpecSpecs == InitSpecs /\ [][NextSpecs]_vars

(***************************************************************************)
(* Properties of the Dataset Store.                                        *)
(***************************************************************************)
Copies(file, u) == Cardinality({k \in 1..Len(file.watches) : file.watches[k].url = u})

\* C3: after any sequence of save_watches_to_json calls, with any batches
\* (also a batch that holds the same url more than once), the persisted
\* collection never holds two records with the same url.
C3_NoDuplicateUrl == \A u \in StoredUrls(datasetFile) : Copies(datasetFile, u) = 1

\* C4: a call given the same batch as the call before it leaves exactly one
\* stored copy of each url of the batch and writes nothing; and a call in
\* which no incoming record has a new url writes nothing.
C4_Idempotent ==
    /\ repeated => /\ ~wrote
                   /\ \A k \in 1..Len(batch) : Copies(datasetFile, batch[k].url) = 1
    /\ (called /\ ~hadNew) => ~wrote

\* The part of C4 the code keeps: the repeated call and the call without a
\* new url write nothing and leave the file as it was.
C4_NoSecondWrite == (called /\ (repeated \/ ~hadNew)) => ~wrote

(***************************************************************************)
(* Properties of the Brand Orchestrator.                                   *)
(***************************************************************************)
FetchedUrls == {fetched[k][2] : k \in 1..Len(fetched)}

\* C1: a run that starts with the persisted cursor {current_page = P,
\* processed_urls = S} requests page P as its first listing page and never
\* fetches the detail page of a url in S.
C1_ResumeFromCursor ==
    startFile.kind = "json" =>
        /\ requested # <<>> => requested[1] = startFile.current_page
        /\ FetchedUrls \cap startFile.processed_urls = {}

C1_Witness ==
    /\ startFile.kind = "json"
    /\ startFile.current_page >= 2
    /\ startFile.processed_urls # {}
    /\ requested # <<>>
    /\ fetched # <<>>

\* The urls an uninterrupted run without failures stores: page after page
\* until a page lists nothing new.
RECURSIVE CleanCrawl(_, _, _)
CleanCrawl(cat, p, seen) ==
    LET urls == ProcessListingPage(cat, p)
    IN IF NewUrls(urls, seen) = <<>> THEN seen
       ELSE CleanCrawl(cat, p + 1, seen \cup Range(urls))

\* C2: when the process is killed during process_brand and run again, at
\* most the one item in flight is lost: once the resumed run is over, every
\* other item of the catalog is stored.
C2_KillLosesAtMostOneItem ==
    (pc = "done" /\ runs = 2 /\ kills = 1 /\ faults = 0) =>
        Cardinality(CleanCrawl(catalog, 1, {}) \ StoredUrls(datasetFile)) <= 1

\* C5: the persisted processed_urls never loses a url a completed save has
\* persisted, and the persisted current_page never decreases, within a run
\* and across resumed runs.
C5_CursorMonotone ==
    progressFile.kind = "json" =>
        /\ everProcessed \subseteq progressFile.processed_urls
        /\ maxPage <= progressFile.current_page

\* What the code keeps of C5: the cursor is monotone as long as no kill has
\* cut a file write short.
C5_MonotoneUnlessTorn == ~torn => C5_CursorMonotone

\* C6: from no persisted state, with two new urls on each of pages 1 and 2,
\* none on page 3 and every page valid, process_brand returns 4 records, the
\* cursor ends as {current_page = 3, 4 urls}, and the Dataset file is
\* written 4 times and holds the 4 urls once each.
EndToEndCatalog == << <<1, 2>>, <<3, 4>> >>

EndToEndRun ==
    /\ catalog = EndToEndCatalog
    /\ runs = 1
    /\ kills = 0
    /\ faults = 0
    /\ pc \in {"returned", "done"}

C6_EndToEnd ==
    EndToEndRun =>
        /\ Len(brand_watches) = 4
        /\ progressFile = ProgressJson(3, {1, 2, 3, 4})
        /\ nwrites = 4
        /\ StoredUrls(datasetFile) = {1, 2, 3, 4}
        /\ Len(datasetFile.watches) = 4

C6_Witness == EndToEndRun /\ pc = "done"

\* C7: when the listing of page N is empty or holds processed urls only,
\* process_brand returns without error, no detail page of page N is fetched
\* and no listing page after N is requested.
C7_EndOfCatalog ==
    ended # 0 =>
        /\ pc \in {"returned", "mainexcept", "done"}
        /\ \A k \in 1..Len(requested) : requested[k] <= ended
        /\ \A k \in 1..Len(fetched) : fetched[k][1] # ended

C7_Witness ==
    /\ ended = 2
    /\ ProcessListingPage(catalog, ended) # <<>>
    /\ fetched # <<>>
    /\ pc = "returned"

\* C8: a listing-page load that fails (goto raises, the status is not 200,
\* or the container does not appear) is given up only after 3 attempts.
C8_GivenUpAfterThreeAttempts == gaveUp => attempts = MaxRetries

\* What the code keeps of C8: a load that raises is attempted 3 times, with
\* sleeps of 2, 4 and 8 seconds, before the error reaches process_brand.
C8_RaiseIsRetried == pc = "except" /\ gaveUp => attempts = MaxRetries /\ backoff = <<2, 4, 8>>

\* C9: an item whose extraction raises is attempted 3 times before it is
\* skipped.
C9_ItemRetried == skipKind = "raised" => skipAttempts = MaxRetries

\* C10: when the handling of an item fails (process_watch_detail returns
\* None, or an error is raised), process_brand goes on with the next url of
\* the page and with the following pages, and the failed url is not added to
\* processed_urls and no record is stored for it.
ItemFailed == itemFailures' = itemFailures + 1

ItemLoopGoesOn ==
    /\ i' = i + 1
    /\ pc' = IF i < Len(new_urls) THEN "item" ELSE "pagesave"
    /\ UNCHANGED <<page_num, new_urls>>

AllItemsAttempted ==
    pc = "pagesave" =>
        \A k \in 1..Len(new_urls) : <<page_num, new_urls[k]>> \in Range(fetched)

RaisedThrice == gaveUp /\ Len(backoff) = MaxRetries

\* C11: after each listing page N that process_brand is done with, a page
\* whose items were processed as well as a page whose load failed after its
\* retries were exhausted, the persisted cursor has current_page = N + 1.
C11_CursorAdvancedAfterEveryPage ==
    /\ (pc = "page" /\ attempts = 0 /\ requested # <<>>) =>
            progressFile = ProgressJson(requested[Len(requested)] + 1, processed_urls)
    /\ (RaisedThrice /\ pc = "returned") =>
            progressFile = ProgressJson(page_num + 1, processed_urls)

\* C11, amended: after a page N whose items were processed the persisted
\* cursor has current_page = N + 1 and the loop is at page N + 1; after a
\* page N whose load raised three times the except clause persists the
\* cursor with current_page = N; after a page whose load returned False no
\* cursor is saved, and the file is as the last save, or the start of the
\* run, left it.
C11_CursorAfterPage ==
    /\ (pc = "page" /\ attempts = 0 /\ requested # <<>>) =>
            /\ page_num = requested[Len(requested)] + 1
            /\ progressFile = ProgressJson(page_num, processed_urls)
    /\ (RaisedThrice /\ pc = "returned") =>
            progressFile = ProgressJson(page_num, processed_urls)
    /\ (gaveUp /\ ~RaisedThrice) =>
            /\ pc \in {"returned", "mainexcept", "done"}
            /\ progressFile = IF Len(requested) = attempts
                              THEN startFile
                              ELSE ProgressJson(page_num, processed_urls)

C11_Witness ==
    /\ RaisedThrice
    /\ pc = "returned"
    /\ page_num = 2
    /\ processed_urls # {}

(***************************************************************************)
(* Properties of the page ceiling.                                         *)
(***************************************************************************)
FirstRunOver == pc = "done" /\ runs = 1

TwiceBase == Min(3 * fnIn.response_time, 2 * Seconds(3))

\* C13: with base = min(1.5 * t, 3.0), adaptive_delay returns a value in
\* [5 base + 10, 5 base + 15] for status 429, in [3 base + 5, 3 base + 10]
\* for status 500, and in [base, 1.5 base] for status 200.
C13_DelayRanges ==
    pc = "done" =>
        /\ fnIn.status_code = 429 =>
                /\ 2 * fnOut >= 5 * TwiceBase + 2 * Seconds(10)
                /\ 2 * fnOut <= 5 * TwiceBase + 2 * Seconds(15)
        /\ fnIn.status_code = 500 =>
                /\ 2 * fnOut >= 3 * TwiceBase + 2 * Seconds(5)
                /\ 2 * fnOut <= 3 * TwiceBase + 2 * Seconds(10)
        /\ fnIn.status_code = 200 =>
                /\ 2 * fnOut >= TwiceBase
                /\ 4 * fnOut <= 3 * TwiceBase

\* What the code does: every status from 429 on, 500 and 503 among them,
\* gets the delay of 429; every status below gets the delay of 200.
C13_DelayRangesAsCoded ==
    pc = "done" =>
        IF fnIn.status_code >= 429
        THEN /\ 2 * fnOut >= 5 * TwiceBase + 2 * Seconds(10)
             /\ 2 * fnOut <= 5 * TwiceBase + 2 * Seconds(15)
        ELSE /\ 2 * fnOut >= TwiceBase
             /\ 4 * fnOut <= 3 * TwiceBase

(***************************************************************************)
(* Properties of get_pagination_url.                                       *)
(***************************************************************************)
IndexFile(n) == <<"i", "n", "d", "e", "x", "-">> \o Decimal(n) \o <<".", "h", "t", "m">>

\* C14: for page 1 the base url is returned unchanged; for a page n > 1 the
\* result has the scheme, the host and the query string of the base url,
\* and its path is the base url's path with a trailing index.htm replaced
\* by index-n.htm, or with index-n.htm appended after a trailing '/', or
\* with /index-n.htm appended to any other path.
C14_PaginationUrl ==
    pc = "done" =>
        LET parts == fnIn.parts
            n == fnIn.page_num
            path == parts.path
            tail == SubSeq(path, Len(path) - 8, Len(path))
            expected ==
                IF Len(path) >= 9 /\ tail = <<"i", "n", "d", "e", "x", ".", "h", "t", "m">>
                THEN SubSeq(path, 1, Len(path) - 9) \o IndexFile(n)
                ELSE IF path # <<>> /\ path[Len(path)] = "/"
                THEN path \o IndexFile(n)
                ELSE path \o <<"/">> \o IndexFile(n)
        IN /\ n = 1 => fnOut = fnIn.base_url
           /\ n > 1 =>
                fnOut = parts.scheme \o <<":", "/", "/">> \o parts.netloc \o expected
                            \o (IF parts.query = <<>> THEN <<>> ELSE <<"?">> \o parts.query)
           /\ (fnIn.base_url = <<"h", "t", "t", "p", "s", ":", "/", "/", "x", "/", "b", "r", "a", "n", "d", "/", "i", "n", "d", "e", "x", ".", "h", "t", "m">> /\ n = 5) =>
                fnOut = <<"h", "t", "t", "p", "s", ":", "/", "/", "x", "/", "b", "r", "a", "n", "d", "/", "i", "n", "d", "e", "x", "-", "5", ".", "h", "t", "m">>
           /\ (fnIn.base_url = <<"h", "t", "t", "p", "s", ":", "/", "/", "x", "/", "b", "r", "a", "n", "d", "/">> /\ n = 2) =>
                fnOut = <<"h", "t", "t", "p", "s", ":", "/", "/", "x", "/", "b", "r", "a", "n", "d", "/", "i", "n", "d", "e", "x", "-", "2", ".", "h", "t", "m">>
           /\ (fnIn.base_url = <<"h", "t", "t", "p", "s", ":", "/", "/", "x", "/", "b", "r", "a", "n", "d", "?", "p", "=", "1">> /\ n = 11) =>
                fnOut = <<"h", "t", "t", "p", "s", ":", "/", "/", "x", "/", "b", "r", "a", "n", "d", "/", "i", "n", "d", "e", "x", "-", "1", "1", ".", "h", "t", "m", "?", "p", "=", "1">>

C14_Witness ==
    /\ pc = "done"
    /\ fnIn.base_url = <<"h", "t", "t", "p", "s", ":", "/", "/", "x", "/", "b", "r", "a", "n", "d", "/", "i", "n", "d", "e", "x", ".", "h", "t", "m", "?", "p", "=", "1">>
    /\ fnIn.page_num = 10
    /\ fnOut = <<"h", "t", "t", "p", "s", ":", "/", "/", "x", "/", "b", "r", "a", "n", "d", "/", "i", "n", "d", "e", "x", "-", "1", "0", ".", "h", "t", "m", "?", "p", "=", "1">>

(***************************************************************************)
(* Properties of extract_specs.                                            *)
(***************************************************************************)
\* a row of the page that the claim does not exclude: it has a key, the key
\* is not "basic info", and key and value are not both "description"
Wanted(r) ==
    /\ r.key.text # <<>>
    /\ Lower(r.key.text) # <<"basic info">>
    /\ ~(Lower(r.key.text) = <<"description">> /\ Lower(r.value.text) = <<"description">>)

\* the rows read: those of the first selector that matches a wanted row
ReadBy(n) == SelectSeq(fnIn, LAMBDA r : Matches(SpecTables[n], r.table))

Yields(n) == \E k \in 1..Len(ReadBy(n)) : Wanted(ReadBy(n)[k])

RowsRead ==
    IF \E n \in 1..Len(SpecTables) : Yields(n)
    THEN ReadBy(CHOOSE n \in 1..Len(SpecTables) :
                    Yields(n) /\ \A m \in 1..(n - 1) : ~Yields(m))
    ELSE <<>>

\* C15: the table extract_specs returns has no row whose key reads
\* "basic info" in any case, and no row whose key and cleaned value both
\* read "description" in any case; a row with another key, or with the key
\* Description and a real text, is there with its cleaned value, and of the
\* rows with one key the last one gives the value.
C15_SpecTable ==
    pc = "done" =>
        /\ \A key \in DOMAIN fnOut :
                /\ Lower(key) # <<"basic info">>
                /\ ~(Lower(key) = <<"description">> /\ Lower(fnOut[key]) = <<"description">>)
                /\ \E k \in 1..Len(RowsRead) :
                        Wanted(RowsRead[k]) /\ RowsRead[k].key.text = key
        /\ \A k \in 1..Len(RowsRead) :
                Wanted(RowsRead[k]) =>
                    /\ RowsRead[k].key.text \in DOMAIN fnOut
                    /\ (\A j \in (k + 1)..Len(RowsRead) :
                            Wanted(RowsRead[j]) => RowsRead[j].key.text # RowsRead[k].key.text)
                        => fnOut[RowsRead[k].key.text] = RowsRead[k].value.text

C15_Witness ==
    /\ pc = "done"
    /\ Len(fnIn) = 2
    /\ fnIn[1].table = "data"
    /\ fnIn[2].table = "data"
    /\ fnIn[1].key.text = <<"Description">>
    /\ fnIn[2].key.text = <<"Description">>
    /\ fnIn[1].value.text = <<"Steel">>
    /\ fnIn[2].value.text = <<"fine", " ", "watch">>
    /\ DOMAIN fnOut = {<<"Description">>}
    /\ fnOut[<<"Description">>] = <<"fine", " ", "watch">>

(***************************************************************************)
(* Properties of the pre-flight check.                                     *)
(***************************************************************************)
\* C16: when smoke_test_selectors fails, the run ends with exit status 1
\* before process_brand is called: no listing page is requested by
\* process_brand, no detail page is fetched, no record is extracted, and
\* neither the Dataset file nor the cursor file is written.
C16_SmokeFailureAborts ==
    /\ [](smoke = "failed" =>
            /\ pc = "done"
            /\ exitStatus = 1
            /\ requested = <<>>
            /\ fetched = <<>>
            /\ brand_watches = <<>>
            /\ all_watches = <<>>
            /\ nwrites = 0
            /\ progressFile = startFile)
    /\ [][smoke' = "failed" => UNCHANGED <<progressFile, datasetFile>>]_vars

C16_Witness ==
    /\ smoke = "failed"
    /\ runs = 2
    /\ datasetFile.kind = "json"
    /\ progressFile.kind = "json"

(***************************************************************************)
(* Properties of the cursor file.                                          *)
(***************************************************************************)
\* C17: at every point in time, also when the process is killed in the
\* middle of a save_progress call, the cursor file holds a complete cursor
\* (the one saved before or the new one), never an empty or partial one.
C17_CursorFileNeverPartial == progressFile.kind # "malformed"

C20_PoliteDelayBeforeEveryFetch == [][Len(fetched') > Len(fetched) => delayed]_vars

(***************************************************************************)
(* Duplicates within one listing page, and the order of the crawl.         *)
(***************************************************************************)
\* C21: a url the listing page returns more than once is fetched once and
\* gives one record: no url already processed is fetched again, and no two
\* records of brand_watches have the same url.
C21_ListingDeduplicated ==
    /\ [](\A j, k \in 1..Len(brand_watches) :
            j # k => brand_watches[j].url # brand_watches[k].url)
    /\ [][Len(fetched') > Len(fetched) => new_urls[i] \notin processed_urls]_vars

\* the urls fetched so far from listing page p, in the order of the fetches
FetchedOf(p) ==
    LET of == SelectSeq(fetched, LAMBDA f : f[1] = p)
    IN [k \in 1..Len(of) |-> of[k][2]]

\* how many items of new_urls the item loop has fetched
ItemsDone ==
    CASE pc = "item" -> i - 1
      [] pc \in {"append", "cursor"} -> i
      [] pc = "pagesave" -> Len(new_urls)
      [] OTHER -> 0

\* C22: process_brand asks for listing pages in strictly increasing order
\* of page number (the attempts with_retry repeats after a raise are for the
\* same page), the items of a page are fetched in the order of the listing,
\* and no item of a later page is fetched before every new item of the page
\* has been attempted.
C22_CrawlOrder ==
    /\ [][requested' # requested /\ requested' # <<>> =>
            /\ requested' = Append(requested, page_num)
            /\ requested # <<>> =>
                IF retries > 0
                THEN requested[Len(requested)] = page_num
                ELSE requested[Len(requested)] < page_num]_vars
    /\ [](pc \in {"item", "append", "cursor", "pagesave"} =>
            LET listing == ProcessListingPage(catalog, page_num)
            IN /\ new_urls = SelectSeq(listing, LAMBDA u : u \in Range(new_urls))
               /\ FetchedOf(page_num) = SubSeq(new_urls, 1, ItemsDone))
    /\ [](\A k \in 1..(Len(fetched) - 1) : fetched[k][1] <= fetched[k + 1][1])
    /\ [][Len(fetched') > Len(fetched) /\ fetched # <<>> /\
          fetched'[Len(fetched')][1] > fetched[Len(fetched)][1] =>
            LET p == fetched[Len(fetched)][1]
                listing == ProcessListingPage(catalog, p)
            IN \E done \in SUBSET Range(listing) :
                  FetchedOf(p) = SelectSeq(listing, LAMBDA u : u \notin done)]_vars

\* two items of one page have been fetched and a later page is being read
C22_Witness ==
    /\ Len(requested) >= 2
    /\ Len(fetched) >= 2
    /\ fetched[1][1] = fetched[2][1]
    /\ fetched[1][2] # fetched[2][2]
    /\ page_num > fetched[1][1]
    /\ pc = "listing"

(***************************************************************************)
(* The records process_watch_detail gives.                                 *)
(***************************************************************************)
\* the records of a sequence have a name and an absolute url
WellFormed(watches) ==
    \A k \in 1..Len(watches) : watches[k].name # "" /\ watches[k].url > 0

\* C26: every record process_brand returns or stores has a non-empty name
\* and an absolute url; a detail page whose name is empty gives no record,
\* is fetched once, leaves the Dataset and processed_urls as they were, and
\* process_watch_detail never raises: after it the item loop goes on.
C26_RecordsHaveNameAndUrl ==
    /\ [](WellFormed(brand_watches) /\ WellFormed(all_watches)
          /\ WellFormed(datasetFile.watches))
    /\ [](\A d \in DetailPages, u \in {-2, -1, 1, 2} :
            LET w == ProcessWatchDetail(u, d)
            IN /\ (d.raises \/ d.name = "") => w = NoWatch
               /\ w # NoWatch => w.name = d.name /\ w.url > 0 /\ w.url \in {u, -u})
    /\ [][pc = "item" /\ Running' =>
            /\ pc' \in {"item", "append", "pagesave"}
            /\ Len(fetched') = Len(fetched) + 1
            /\ watch_data' = NoWatch =>
                /\ skipAttempts' = 1
                /\ UNCHANGED <<processed_urls, brand_watches, datasetFile,
                               progressFile, nwrites>>]_vars

\* an item page with an empty name was skipped, and a later record is stored
C26_Witness ==
    /\ skipKind = "empty_name"
    /\ skipAttempts = 1
    /\ itemFailures >= 1
    /\ brand_watches # <<>>
    /\ datasetFile.kind = "json"
    /\ datasetFile.watches # <<>>

(***************************************************************************)
(* What is on disk across saves and kills.                                 *)
(***************************************************************************)
\* C27: a record stored in the Dataset file stays stored: whatever happens
\* next (a save, a kill in the middle of a save, another run), the records
\* the file held are still in it, unchanged and at the same positions.
C27_StoredStaysStored ==
    [][datasetFile.kind = "json" =>
        /\ datasetFile'.kind = "json"
        /\ Len(datasetFile'.watches) >= Len(datasetFile.watches)
        /\ SubSeq(datasetFile'.watches, 1, Len(datasetFile.watches))
               = datasetFile.watches]_vars

\* C28: every url of the persisted cursor's processed_urls has a record in
\* the Dataset file.
C28_ProcessedUrlIsStored ==
    progressFile.kind = "json" =>
        progressFile.processed_urls \subseteq StoredUrls(datasetFile)

\* The part of C28 the code keeps: as long as no write has been cut short by
\* a kill, the Dataset append precedes the cursor save.
C28_StoredUnlessTorn == ~torn => C28_ProcessedUrlIsStored

(***************************************************************************)
(* A second run after a run that ended normally.                           *)
(***************************************************************************)
\* C30: a run of process_brand that follows a run whose pagination ended on
\* an empty or fully processed page, with the same catalog, fetches no item,
\* writes no Dataset file, returns no record and leaves the cursor file as it
\* was, and has requested one listing page, when that page loads at the first
\* attempt.
C30_SecondRunDoesNothing ==
    prevNormal =>
        /\ fetched = <<>>
        /\ nwrites = 0
        /\ brand_watches = <<>>
        /\ all_watches = <<>>
        /\ (retries = 0 /\ ~gaveUp) =>
            /\ progressFile = startFile
            /\ Len(requested) <= 1
            /\ pc = "done" => Len(requested) = 1

\* the second run is over, and the first had stored something
C30_Witness ==
    /\ prevNormal
    /\ pc = "done"
    /\ retries = 0
    /\ ~gaveUp
    /\ Len(requested) = 1
    /\ progressFile.kind = "json"
    /\ progressFile.processed_urls # {}
    /\ datasetFile.watches # <<>>

(***************************************************************************)
(* with_retry on its own.  The argument is what the wrapped function does  *)
(* at each invocation, should it be invoked that often: it raises, or it   *)
(* returns a value.  The exception of the k-th invocation is numbered k.   *)
(***************************************************************************)
Outcomes == {"raise", "true", "false", "none"}

InitRetry ==
    /\ NothingElse
    /\ pc = "idle"
    /\ fnIn \in [1..(MaxRetries + 1) -> Outcomes]
    /\ fnOut = [retries |-> 0, invocations |-> 0, sleeps |-> <<>>,
                result |-> "", last_exception |-> 0]

\* one round of "while retries < max_retries": func() returns, or it raises
\* and the wrapper sleeps; after the last round last_exception is raised
WithRetryRound ==
    /\ pc \in {"idle", "retry"}
    /\ LET outcome == fnIn[fnOut.invocations + 1]
           w == WithRetryOnRaise(fnOut.retries)
       IN IF outcome # "raise"
          THEN /\ fnOut' = [fnOut EXCEPT !.invocations = @ + 1, !.result = outcome]
               /\ pc' = "done"
          ELSE /\ fnOut' = [fnOut EXCEPT !.invocations = @ + 1,
                                         !.retries = w.retries,
                                         !.sleeps = Append(@, w.sleep_time),
                                         !.last_exception = fnOut.invocations + 1,
                                         !.result = IF w.again THEN "" ELSE "raised"]
               /\ pc' = IF w.again THEN "retry" ELSE "done"
    /\ UNCHANGED others

NextRetry == WithRetryRound

SpecRetry == InitRetry /\ [][NextRetry]_vars

\* the invocations of fnIn before the first that does not raise, three at most
RaisesFirst ==
    LET ok == {k \in 1..3 : fnIn[k] # "raise"}
    IN IF ok = {} THEN 3 ELSE (CHOOSE k \in ok : \A j \in ok : k <= j) - 1

\* C23: a function wrapped by with_retry(max_retries=3, backoff_factor=2) is
\* invoked at most 3 times; the result of the first invocation that does not
\* raise is returned at once, whatever it is; after the k-th raise the
\* wrapper sleeps 2^k seconds (2, 4, 8, also after the last); after 3
\* raises the last exception is raised to the caller.
C23_WithRetry ==
    /\ fnOut.invocations <= 3
    /\ fnOut.sleeps = SubSeq(<<2, 4, 8>>, 1, Len(fnOut.sleeps))
    /\ Len(fnOut.sleeps) = fnOut.retries
    /\ \A k \in 1..fnOut.retries : fnIn[k] = "raise"
    /\ pc = "done" =>
        IF RaisesFirst = 3
        THEN /\ fnOut.result = "raised"
             /\ fnOut.last_exception = 3
             /\ fnOut.invocations = 3
             /\ fnOut.sleeps = <<2, 4, 8>>
        ELSE /\ fnOut.result = fnIn[RaisesFirst + 1]
             /\ fnOut.invocations = RaisesFirst + 1
             /\ Len(fnOut.sleeps) = RaisesFirst

\* the function raised twice and then returned None
C23_Witness ==
    /\ pc = "done"
    /\ fnIn[1] = "raise"
    /\ fnIn[2] = "raise"
    /\ fnIn[3] = "none"
    /\ fnOut.result = "none"
    /\ fnOut.sleeps = <<2, 4>>

(***************************************************************************)
(* process_brand_page on its own: one load of a listing page, the time the *)
(* response took, and what the function sleeps before it returns.          *)
(***************************************************************************)
PageLoads ==
    PageResponses \cup
    [raises : {FALSE}, status : StatusCodes, container : BOOLEAN]

InitPage ==
    /\ NothingElse
    /\ pc = "idle"
    /\ fnIn \in [resp : PageLoads, response_time : ResponseTimes]
    /\ fnOut = [result |-> "", status_code |-> <<>>, slept |-> <<>>]

\* the body of process_brand_page: adaptive_delay is called, and its value
\* slept, on the path that returns True
ProcessBrandPageCall ==
    /\ pc = "idle"
    /\ LET result == ProcessBrandPage(fnIn.resp)
       IN IF result = "true"
          THEN \E delay \in AdaptiveDelay(fnIn.response_time, fnIn.resp.status) :
                  fnOut' = [result |-> result,
                            status_code |-> <<fnIn.resp.status>>,
                            slept |-> <<delay>>]
          ELSE fnOut' = [fnOut EXCEPT !.result = result]
    /\ pc' = "done"
    /\ UNCHANGED others

NextPage == ProcessBrandPageCall

SpecPage == InitPage /\ [][NextPage]_vars

\* C29: process_brand_page calls adaptive_delay with status 200 only, after
\* a load that succeeded; the delay it sleeps is within [base, 1.5 base]
\* with base <= 3.0 s, so 4.5 s at most; a response with status 429 or 5xx
\* leads to no adaptive delay.
C29_DelayOnlyAfterSuccess ==
    /\ \A k \in 1..Len(fnOut.status_code) : fnOut.status_code[k] = 200
    /\ Len(fnOut.slept) = Len(fnOut.status_code)
    /\ fnOut.slept # <<>> =>
        /\ fnOut.result = "true"
        /\ ~fnIn.resp.raises /\ fnIn.resp.status = 200 /\ fnIn.resp.container
    /\ \A k \in 1..Len(fnOut.slept) :
        /\ 2 * fnOut.slept[k] >= TwiceBase
        /\ 4 * fnOut.slept[k] <= 3 * TwiceBase
        /\ TwiceBase <= 2 * Seconds(3)
        /\ 2 * fnOut.slept[k] <= 9 * 4
    /\ (fnIn.resp.status = 429 \/ fnIn.resp.status \in 500..599) => fnOut.slept = <<>>
    /\ pc = "done" =>
        fnOut.result = IF fnIn.resp.raises THEN "raise"
                       ELSE IF fnIn.resp.status = 200 /\ fnIn.resp.container
                            THEN "true" ELSE "false"

\* a slow page loaded, and the longest delay was slept
C29_Witness ==
    /\ pc = "done"
    /\ fnIn.resp.status = 200
    /\ fnOut.result = "true"
    /\ fnOut.slept = <<18>>

(***************************************************************************)
(* process_watch_detail on its own.  A detail page is what its selectors   *)
(* meet: an element is absent, or present with a text (a sequence of words *)
(* and white space); a query of a description selector may also raise.     *)
(* The element of DETAIL_NAME is a span inside an h1, so a page that has   *)
(* it has an h1.                                                           *)
(***************************************************************************)
Absent == [present |-> FALSE, raises |-> FALSE, text |-> <<>>]

Element(text) == [present |-> TRUE, raises |-> FALSE, text |-> text]

QueryRaises == [present |-> FALSE, raises |-> TRUE, text |-> <<>>]

NameElements ==
    {Absent, Element(<<>>), Element(<<" ", "\n">>), Element(<<"\n", "Submariner", " ">>)}

HeadingElements ==
    {Absent, Element(<<>>), Element(<<"\n", "Rolex", " ", "Submariner", "\n">>)}

PriceElements == {Absent, Element(<<" ", "$9,500", "\n">>)}

\* SELECTORS["DETAIL_DESC"], by the class each selector ends with
DetailDesc ==
    <<"description-text", "article-description", "dealer-listing__description",
      "detail-page__description">>

DescElements(k) ==
    {QueryRaises, Absent, Element(<<"\n">>), Element(<<" ", DetailDesc[k], "\n">>)}

\* what extract_specs found under the key "Description"
SpecDescriptions == {Absent, Element(<<"Full", " ", "set">>)}

Details ==
    {d \in [raises : BOOLEAN, name_span : NameElements, h1 : HeadingElements,
            price : PriceElements, spec_description : SpecDescriptions,
            desc : {s \in [1..Len(DetailDesc) -> UNION {DescElements(k) : k \in 1..Len(DetailDesc)}] :
                        \A k \in 1..Len(DetailDesc) : s[k] \in DescElements(k)}] :
        d.name_span.present => d.h1.present}

\* element.text_content().strip() if element else ""
TextOf(element) == IF element.present THEN Strip(element.text) ELSE <<>>

\* page.query_selector(SELECTORS["DETAIL_NAME"]) or page.query_selector("h1")
NameElement(d) == IF d.name_span.present THEN d.name_span ELSE d.h1

\* extract_description, from selector k on
RECURSIVE ExtractDescription(_, _)
ExtractDescription(desc, k) ==
    IF k > Len(desc) THEN <<>>
    ELSE IF desc[k].raises THEN ExtractDescription(desc, k + 1)
    ELSE IF desc[k].present /\ Strip(desc[k].text) # <<>> THEN Strip(desc[k].text)
    ELSE ExtractDescription(desc, k + 1)

NoDetail ==
    [found |-> FALSE, name |-> <<>>, price |-> <<>>, description |-> <<>>,
     popped |-> FALSE]

\* process_watch_detail: the record (popped: "Description" was taken out of
\* the specifications), or None
WatchDetail(d) ==
    IF d.raises THEN NoDetail
    ELSE LET watch_name == TextOf(NameElement(d))
             description == ExtractDescription(d.desc, 1)
             from_specs == description = <<>> /\ d.spec_description.present
         IN IF watch_name = <<>> THEN NoDetail
            ELSE [found |-> TRUE,
                  name |-> watch_name,
                  price |-> TextOf(d.price),
                  description |-> IF from_specs THEN d.spec_description.text
                                  ELSE description,
                  popped |-> from_specs]

InitDetail ==
    /\ NothingElse
    /\ pc = "idle"
    /\ fnIn \in Details
    /\ fnOut = NoDetail

ProcessWatchDetailCall ==
    /\ pc = "idle"
    /\ fnOut' = WatchDetail(fnIn)
    /\ pc' = "done"
    /\ UNCHANGED others

NextDetail == ProcessWatchDetailCall

SpecDetail == InitDetail /\ [][NextDetail]_vars

\* the text of the first candidate, in order, that matches an element with a
\* non-empty text
RECURSIVE FirstNonEmpty(_)
FirstNonEmpty(chain) ==
    IF chain = <<>> THEN <<>>
    ELSE IF Head(chain).present /\ Strip(Head(chain).text) # <<>>
         THEN Strip(Head(chain).text)
         ELSE FirstNonEmpty(Tail(chain))

\* C25: a field resolved through a selector chain takes the first candidate
\* that matches an element with non-empty text: the name is the span's text,
\* or else the heading's, and a record is returned when either has one; the
\* description is the text of the first description selector that has one;
\* a chain whose candidates all fail gives the empty text.
C25_FirstNonEmptyCandidate ==
    (pc = "done" /\ ~fnIn.raises) =>
        LET name == FirstNonEmpty(<<fnIn.name_span, fnIn.h1>>)
            description == FirstNonEmpty(fnIn.desc)
        IN /\ fnOut.found = (name # <<>>)
           /\ fnOut.found =>
               /\ fnOut.name = name
               /\ description # <<>> => fnOut.description = description
               /\ (description = <<>> /\ ~fnIn.spec_description.present) =>
                     fnOut.description = <<>>

\* The part of C25 the code keeps: the name is the text of the first name
\* candidate that matches an element, the description that of the first
\* description candidate with a non-empty text.
C25_ChainsAsCoded ==
    (pc = "done" /\ ~fnIn.raises) =>
        LET name == IF fnIn.name_span.present THEN Strip(fnIn.name_span.text)
                    ELSE IF fnIn.h1.present THEN Strip(fnIn.h1.text) ELSE <<>>
            description == FirstNonEmpty(fnIn.desc)
        IN /\ fnOut.found = (name # <<>>)
           /\ fnOut.found =>
               /\ fnOut.name = name
               /\ description # <<>> => fnOut.description = description
               /\ (description = <<>> /\ ~fnIn.spec_description.present) =>
                     fnOut.description = <<>>

(***************************************************************************)
(* process_listing_page on its own.  The listing container #wt-watches is  *)
(* the sequence of its children.  A child holds anchors, in document       *)
(* order, each with its href (0: none or empty); `direct` says that the    *)
(* child is a div and its anchors are its own children, which is what      *)
(* "#wt-watches > div:nth-child(n) > a" asks for, while "#wt-watches a"    *)
(* matches every anchor.  A Playwright call may raise: a_raises is the     *)
(* step of Strategy A that does (1: query_selector_all, k + 1:             *)
(* get_attribute of anchor k, 0: none), b_raises the position whose probe  *)
(* does in Strategy B, content_raises whether page.content() does.         *)
(***************************************************************************)
Children ==
    { [direct |-> TRUE, hrefs |-> <<1>>],
      [direct |-> TRUE, hrefs |-> <<-2>>],
      [direct |-> TRUE, hrefs |-> <<0>>],
      [direct |-> TRUE, hrefs |-> <<1, 2>>],
      [direct |-> FALSE, hrefs |-> <<2>>],
      [direct |-> FALSE, hrefs |-> <<0>>],
      [direct |-> FALSE, hrefs |-> <<>>] }

Containers == UNION {[1..n -> Children] : n \in 0..MaxChildren}

\* page.query_selector_all("#wt-watches a"): the hrefs of all the anchors
RECURSIVE AllLinks(_)
AllLinks(dom) ==
    IF dom = <<>> THEN <<>> ELSE Head(dom).hrefs \o AllLinks(Tail(dom))

\* Strategy A's loop from link k on: watch_urls, and whether a call raised
RECURSIVE CollectAll(_, _, _, _)
CollectAll(all_links, k, a_raises, watch_urls) ==
    IF k > Len(all_links) THEN [watch_urls |-> watch_urls, raised |-> FALSE]
    ELSE IF a_raises = k + 1 THEN [watch_urls |-> watch_urls, raised |-> TRUE]
    ELSE CollectAll(all_links, k + 1, a_raises,
                    IF all_links[k] # 0
                    THEN Append(watch_urls, MakeAbsoluteUrl(all_links[k]))
                    ELSE watch_urls)

\* Strategy B's loop from position n on
RECURSIVE CollectIncremental(_, _, _, _)
CollectIncremental(dom, n, b_raises, watch_urls) ==
    IF b_raises = n THEN watch_urls
    ELSE IF n > Len(dom) THEN watch_urls
    ELSE IF ~dom[n].direct \/ dom[n].hrefs = <<>> THEN watch_urls
    ELSE CollectIncremental(dom, n + 1, b_raises,
                            IF dom[n].hrefs[1] # 0
                            THEN Append(watch_urls, MakeAbsoluteUrl(dom[n].hrefs[1]))
                            ELSE watch_urls)

\* process_listing_page: the list it returns, or that it raises
WatchUrls(dom, a_raises, b_raises, content_raises) ==
    LET all_links == IF a_raises = 1 THEN <<>> ELSE AllLinks(dom)
        a == CollectAll(all_links, 1, a_raises, <<>>)
        watch_urls == CollectIncremental(dom, 1, b_raises, a.watch_urls)
    IN IF all_links # <<>> /\ ~a.raised
       THEN [watch_urls |-> a.watch_urls, raises |-> FALSE]
       ELSE IF watch_urls = <<>> /\ content_raises
       THEN [watch_urls |-> <<>>, raises |-> TRUE]
       ELSE [watch_urls |-> watch_urls, raises |-> FALSE]

InitListing ==
    /\ NothingElse
    /\ pc = "idle"
    /\ fnIn \in [dom : Containers, a_raises : 0..(MaxChildren + 1),
                 b_raises : 0..MaxChildren, content_raises : BOOLEAN]
    /\ fnOut = [watch_urls |-> <<>>, raises |-> FALSE]

ProcessListingPageCall ==
    /\ pc = "idle"
    /\ fnOut' = WatchUrls(fnIn.dom, fnIn.a_raises, fnIn.b_raises, fnIn.content_raises)
    /\ pc' = "done"
    /\ UNCHANGED others

NextListing == ProcessListingPageCall

SpecListing == InitListing /\ [][NextListing]_vars

\* the link targets of a sequence that are not empty, as absolute urls
Targets(hrefs) ==
    LET kept == SelectSeq(hrefs, LAMBDA h : h # 0)
    IN [k \in 1..Len(kept) |-> IF kept[k] < 0 THEN -kept[k] ELSE kept[k]]

\* the urls Strategy A finds: those of all the anchors of the container, up
\* to the call that raises
FoundByA ==
    LET all == AllLinks(fnIn.dom)
    IN CASE fnIn.a_raises = 0 -> Targets(all)
         [] fnIn.a_raises = 1 -> <<>>
         [] OTHER -> Targets(SubSeq(all, 1, Min(Len(all), fnIn.a_raises - 2)))

\* the urls Strategy B finds: those of the first anchors of positions 1, 2,
\* 3, ... up to the first position with no matching element, or whose probe
\* raises
FoundByB ==
    LET dom == fnIn.dom
        stops == {n \in 1..(Len(dom) + 1) :
                     \/ n = Len(dom) + 1
                     \/ n = fnIn.b_raises
                     \/ ~dom[n].direct
                     \/ dom[n].hrefs = <<>>}
        last == (CHOOSE n \in stops : \A m \in stops : n <= m) - 1
    IN Targets([n \in 1..last |-> dom[n].hrefs[1]])

\* C24: process_listing_page returns the urls Strategy A finds when it finds
\* at least one, and otherwise the urls Strategy B finds; no url from either
\* is returned as the empty sequence, not raised.
C24_StrategyAThenB ==
    pc = "done" =>
        /\ ~fnOut.raises
        /\ fnOut.watch_urls = IF FoundByA # <<>> THEN FoundByA ELSE FoundByB

\* The part of C24 the code keeps: when no Playwright call raises after
\* Strategy A has found a url, and page.content() does not raise, the list
\* is Strategy A's or else Strategy B's.
C24_UnlessARaisesMidway ==
    (pc = "done" /\ ~fnIn.content_raises
       /\ (fnIn.a_raises > Len(AllLinks(fnIn.dom)) + 1 \/ FoundByA = <<>>)) =>
        /\ ~fnOut.raises
        /\ fnOut.watch_urls = IF FoundByA # <<>> THEN FoundByA ELSE FoundByB

====
